---- MODULE Spec2Model ----
(***************************************************************************)
(* A model of unicart-scraper (src/src/index.js): the extraction engine    *)
(* parseFromHtml with its helpers toNumberOrNull, extractCurrencyLoose,    *)
(* flattenJsonLd, isType, pickFirst and absUrl, and the POST /scrape       *)
(* handler that drives a browser and calls the engine.                     *)
(*                                                                         *)
(* JavaScript strings are modelled as sequences of lexemes.  A lexeme is   *)
(* either one character that the code looks at individually (a digit, a    *)
(* comma, a period, a blank, a currency sign) or a run of other characters *)
(* that the code only ever treats as a whole ("EUR", "Widget", an origin   *)
(* such as "https://shop.example").  JavaScript values are tagged records. *)
(***************************************************************************)
EXTENDS Integers, Sequences, FiniteSets, TLC

VARIABLES
    numIn, numOut,                        \* toNumberOrNull: argument, result
    flatIn, flatOut,                      \* flattenJsonLd: argument, result
    url, html,                            \* parseFromHtml: arguments
    pc, k, candidates,                    \* parseFromHtml: position in the loops
    title, imageUrl, price, currency,     \* parseFromHtml: JSON-LD locals
    ogTitle, ogImage, metaPrice, metaCurrency,  \* parseFromHtml: meta locals
    result,                               \* parseFromHtml: returned record
    TOKEN,                                \* process.env.SCRAPER_TOKEN || ""
    reqs                                  \* /scrape: one record per request

numVars    == <<numIn, numOut>>
flatVars   == <<flatIn, flatOut>>
parseVars  == <<url, html, pc, k, candidates, title, imageUrl, price, currency,
                ogTitle, ogImage, metaPrice, metaCurrency, result>>
scrapeVars == <<TOKEN, reqs>>
vars       == <<numVars, flatVars, parseVars, scrapeVars>>

----------------------------------------------------------------------------
(* JavaScript values *)

NULL      == [t |-> "null"]
UNDEFINED == [t |-> "undefined"]
NaN       == [t |-> "nan"]
Str(s)    == [t |-> "str", s |-> s]
Num(m, e) == [t |-> "num", m |-> m, e |-> e]      \* the number m / 10^e
Arr(xs)   == [t |-> "arr", elems |-> xs]
Obj(f)    == [t |-> "obj", fields |-> f]

\* node[key], undefined when the node is no object or has no such key;
\* also node?.[key] for null and undefined nodes
Get(node, key) ==
    IF node.t = "obj" /\ key \in DOMAIN node.fields
    THEN node.fields[key] ELSE UNDEFINED

\* JavaScript truthiness
Truthy(v) ==
    CASE v.t \in {"null", "undefined", "nan"} -> FALSE
      [] v.t = "str" -> v.s # <<>>
      [] v.t = "num" -> v.m # 0
      [] OTHER -> TRUE

\* a ?? b
Coalesce(a, b) == IF a.t \in {"null", "undefined"} THEN b ELSE a

Digits == {"0", "1", "2", "3", "4", "5", "6", "7", "8", "9"}

DigitVal(d) ==
    CASE d = "0" -> 0 [] d = "1" -> 1 [] d = "2" -> 2 [] d = "3" -> 3
      [] d = "4" -> 4 [] d = "5" -> 5 [] d = "6" -> 6 [] d = "7" -> 7
      [] d = "8" -> 8 [] d = "9" -> 9

RECURSIVE DigitsOf(_)
\* the decimal digits of a natural number, as lexemes
DigitsOf(n) ==
    LET d == CHOOSE c \in Digits : DigitVal(c) = n % 10
    IN IF n < 10 THEN <<d>> ELSE DigitsOf(n \div 10) \o <<d>>

RECURSIVE JoinElems(_)
RECURSIVE JsString(_)
\* String(v)
JsString(v) ==
    CASE v.t = "str" -> v.s
      [] v.t = "num" ->
            LET ds  == DigitsOf(v.m)
                pad == IF Len(ds) > v.e THEN ds
                       ELSE [i \in 1..(v.e + 1 - Len(ds)) |-> "0"] \o ds
            IN IF v.e = 0 THEN ds
               ELSE SubSeq(pad, 1, Len(pad) - v.e) \o <<".">>
                    \o SubSeq(pad, Len(pad) - v.e + 1, Len(pad))
      [] v.t = "arr" -> JoinElems(v.elems)
      [] v.t = "obj" -> <<"[object Object]">>
      [] v.t = "null" -> <<"null">>
      [] v.t = "undefined" -> <<"undefined">>
      [] OTHER -> <<"NaN">>

\* Array.prototype.join(","), which String(array) uses: null and undefined
\* elements give the empty string
JoinElems(xs) ==
    IF xs = <<>> THEN <<>>
    ELSE LET h == IF Head(xs).t \in {"null", "undefined"} THEN <<>>
                  ELSE JsString(Head(xs))
         IN IF Len(xs) = 1 THEN h ELSE h \o <<",">> \o JoinElems(Tail(xs))

RECURSIVE Trim(_)
\* String.prototype.trim
Trim(s) ==
    IF s = <<>> THEN s
    ELSE IF Head(s) = " " THEN Trim(Tail(s))
    ELSE IF s[Len(s)] = " " THEN Trim(SubSeq(s, 1, Len(s) - 1))
    ELSE s

\* String.prototype.indexOf in place of lastIndexOf
IndexOf(s, c) ==
    IF \E i \in 1..Len(s) : s[i] = c
    THEN CHOOSE i \in 1..Len(s) : s[i] = c /\ \A j \in 1..(i-1) : s[j] # c
    ELSE 0

\* String.prototype.lastIndexOf for a one-character needle; 0 stands for -1
\* and positions count from 1
LastIndexOf(s, c) ==
    IF \E i \in 1..Len(s) : s[i] = c
    THEN CHOOSE i \in 1..Len(s) : s[i] = c /\ \A j \in (i+1)..Len(s) : s[j] # c
    ELSE 0

\* s.replace(/c/g, "")
RemoveAll(s, c) == SelectSeq(s, LAMBDA x : x # c)

\* s.replace(c, d) with a string pattern: the first occurrence only
ReplaceFirst(s, c, d) ==
    IF \E i \in 1..Len(s) : s[i] = c
    THEN LET p == CHOOSE i \in 1..Len(s) : s[i] = c /\ \A j \in 1..(i-1) : s[j] # c
         IN [i \in 1..Len(s) |-> IF i = p THEN d ELSE s[i]]
    ELSE s

RECURSIVE DigitsValue(_)
\* the natural number a run of digits denotes
DigitsValue(ds) ==
    IF ds = <<>> THEN 0
    ELSE DigitsValue(SubSeq(ds, 1, Len(ds) - 1)) * 10 + DigitVal(ds[Len(ds)])

RECURSIVE StripZeros(_)
StripZeros(ds) ==
    IF ds # <<>> /\ ds[Len(ds)] = "0" THEN StripZeros(SubSeq(ds, 1, Len(ds) - 1))
    ELSE ds

\* Number(s) for a string of digits, commas and periods: the empty string is
\* 0, digits with at most one period are that decimal number, anything else
\* is NaN.  Floating-point rounding is not modelled.
JsNumber(s) ==
    LET dots == {i \in 1..Len(s) : s[i] = "."}
    IN IF s = <<>> THEN Num(0, 0)
       ELSE IF \E i \in 1..Len(s) : s[i] \notin Digits \cup {"."} THEN NaN
       ELSE IF Cardinality(dots) > 1 THEN NaN
       ELSE IF \A i \in 1..Len(s) : s[i] = "." THEN NaN
       ELSE LET p    == IF dots = {} THEN Len(s) + 1 ELSE CHOOSE i \in dots : TRUE
                int  == SubSeq(s, 1, p - 1)
                frac == StripZeros(SubSeq(s, p + 1, Len(s)))
            IN Num(DigitsValue(int \o frac), Len(frac))

\* toNumberOrNull(v)
toNumberOrNull(v) ==
    IF v.t \in {"null", "undefined"} THEN NULL
    ELSE IF v.t = "num" THEN v       \* JSON and Number() give finite numbers only
    ELSE
      LET s       == Trim(JsString(v))
          cleaned == SelectSeq(s, LAMBDA c : c \in Digits \cup {",", "."})
          lastComma == LastIndexOf(cleaned, ",")
          lastDot   == LastIndexOf(cleaned, ".")
          decSep  == IF lastComma > lastDot THEN "," ELSE "."
          normalized ==
              IF lastComma # 0 /\ lastDot # 0
              THEN ReplaceFirst(RemoveAll(cleaned, IF decSep = "," THEN "." ELSE ","),
                                decSep, ".")
              ELSE ReplaceFirst(cleaned, ",", ".")
          num == JsNumber(normalized)
      IN IF s = <<>> THEN NULL
         ELSE IF cleaned = <<>> THEN NULL
         ELSE IF num.t = "num" THEN num ELSE NULL

----------------------------------------------------------------------------
(* flattenJsonLd *)

\* the keys walk descends through, in the reverse of the order of its calls
ChildKeysReversed ==
    <<"offers", "itemListElement", "mainEntity", "graph", "@graph">>

\* the keys walk descends through, in the order of its calls
ChildKeys == <<"@graph", "graph", "mainEntity", "itemListElement", "offers">>

RECURSIVE walk(_)
RECURSIVE walkAll(_)
RECURSIVE walkKeys(_, _)
\* walk(node): what the call appends to out
walk(node) ==
    IF ~Truthy(node) THEN <<>>
    ELSE IF node.t = "arr" THEN walkAll(node.elems)
    ELSE IF node.t # "obj" THEN <<>>
    ELSE <<node>> \o walkKeys(node, ChildKeys)

\* node.forEach(walk)
walkAll(xs) == IF xs = <<>> THEN <<>> ELSE walk(Head(xs)) \o walkAll(Tail(xs))

\* if (node[key]) walk(node[key]), for each key in turn
walkKeys(node, keys) ==
    IF keys = <<>> THEN <<>>
    ELSE (IF Truthy(Get(node, Head(keys))) THEN walk(Get(node, Head(keys))) ELSE <<>>)
         \o walkKeys(node, Tail(keys))

\* flattenJsonLd(input)
flattenJsonLd(input) == walk(input)

----------------------------------------------------------------------------
(* pickFirst, absUrl, extractCurrencyLoose, isType *)

RECURSIVE pickFirst(_)
\* pickFirst(...vals): the first value whose trimmed text is not empty
pickFirst(vals) ==
    IF vals = <<>> THEN <<>>
    ELSE LET v == Head(vals)
             s == Trim(JsString(IF v.t \in {"null", "undefined"} THEN Str(<<>>) ELSE v))
         IN IF s # <<>> THEN s ELSE pickFirst(Tail(vals))

\* lexemes that are the scheme and authority of an absolute URL
Origins == {"https://shop.example", "https://cdn.example", "https://m.shop.example"}

\* lexemes no URL parser accepts
BadUrlLexemes == {"http://["}

\* new URL(maybe, base) throws
UrlThrows(base, maybe) ==
    \/ \E i \in 1..Len(maybe) : maybe[i] \in BadUrlLexemes
    \/ Head(maybe) \notin Origins /\
         (base = <<>> \/ Head(base) \notin Origins \/
          \E i \in 1..Len(base) : base[i] \in BadUrlLexemes)

\* absUrl(base, maybe); the relative references of the model are
\* path-absolute ("/img/x.png"), which keep the base's origin only
absUrl(base, maybe) ==
    IF maybe = <<>> THEN <<>>
    ELSE IF UrlThrows(base, maybe) THEN <<>>
    ELSE IF Head(maybe) \in Origins THEN maybe
    ELSE <<Head(base)>> \o maybe

\* String.prototype.toUpperCase, lexeme by lexeme
ToUpperCase(s) ==
    [i \in 1..Len(s) |->
        CASE s[i] \in {"eur", "Eur"} -> "EUR"
          [] s[i] = "usd" -> "USD"
          [] s[i] = "gbp" -> "GBP"
          [] s[i] = "Euro" -> "EURO"
          [] OTHER -> s[i]]

\* String.prototype.toLowerCase, lexeme by lexeme
ToLowerCase(s) ==
    [i \in 1..Len(s) |->
        CASE s[i] \in {"Product", "PRODUCT"} -> "product"
          [] s[i] = "WebSite" -> "website"
          [] s[i] = "Thing" -> "thing"
          [] OTHER -> s[i]]

\* s.includes(needle) for a needle of one lexeme: some lexeme of s holds it
Includes(s, needle) ==
    \E i \in 1..Len(s) :
        \/ s[i] = needle
        \/ needle = "EUR" /\ s[i] = "EURO"

\* extractCurrencyLoose(s), s a string
extractCurrencyLoose(s) ==
    LET up == ToUpperCase(s)
    IN IF Includes(up, "EUR") \/ Includes(s, "€") THEN Str(<<"EUR">>)
       ELSE IF Includes(up, "USD") \/ Includes(s, "$") THEN Str(<<"USD">>)
       ELSE IF Includes(up, "GBP") \/ Includes(s, "£") THEN Str(<<"GBP">>)
       ELSE NULL

\* isType(node, t)
isType(node, type) ==
    LET want == ToLowerCase(type)
        raw  == Get(node, "@type")
    IN IF ~Truthy(raw) THEN FALSE
       ELSE IF raw.t = "str" THEN ToLowerCase(raw.s) = want
       ELSE IF raw.t = "arr"
            THEN \E i \in 1..Len(raw.elems) : ToLowerCase(JsString(raw.elems[i])) = want
       ELSE FALSE

----------------------------------------------------------------------------
(* parseFromHtml *)

\* A page is [scripts |-> the texts of its ld+json script elements in
\* document order, meta |-> what each selector of the fallback finds].  The
\* text of a script is modelled by the JSON value it denotes, or Malformed
\* when JSON.parse throws on it.
Malformed == [t |-> "malformed"]

\* the candidates of one script: the Product nodes if there are any, else
\* all flattened nodes
Candidates(json) ==
    LET nodes    == flattenJsonLd(json)
        products == SelectSeq(nodes, LAMBDA n : isType(n, <<"Product">>))
    IN IF Len(products) # 0 THEN products ELSE nodes

\* the JSON-LD locals before the first script
NoFields == [title |-> <<>>, imageUrl |-> <<>>, price |-> NULL, currency |-> NULL]

\* the title assignment without its !title guard
NextTitleOverwrite(acc, n) ==
    IF Truthy(Get(n, "name")) THEN Trim(JsString(Get(n, "name"))) ELSE acc.title

\* if (!title && n?.name) title = String(n.name).trim()
NextTitle(acc, n) ==
    IF acc.title = <<>> /\ Truthy(Get(n, "name"))
    THEN Trim(JsString(Get(n, "name"))) ELSE acc.title

\* if (!imageUrl) { ... }
NextImage(acc, n) ==
    LET img == Get(n, "image")
    IN IF acc.imageUrl # <<>> THEN acc.imageUrl
       ELSE IF img.t = "str" THEN img.s
       ELSE IF img.t = "arr" /\ Len(img.elems) > 0 /\ img.elems[1].t = "str"
            THEN img.elems[1].s
       ELSE acc.imageUrl

\* const offer = Array.isArray(offers) ? offers[0] : offers
OfferOf(n) ==
    LET offers == Get(n, "offers")
    IN IF offers.t = "arr"
       THEN (IF Len(offers.elems) > 0 THEN offers.elems[1] ELSE UNDEFINED)
       ELSE offers

\* offer?.price ?? offer?.lowPrice ?? offer?.highPrice
OfferPrice(offer) ==
    Coalesce(Coalesce(Get(offer, "price"), Get(offer, "lowPrice")), Get(offer, "highPrice"))

\* offer?.priceCurrency ? String(offer.priceCurrency) : null
OfferCurrency(offer) ==
    IF Truthy(Get(offer, "priceCurrency"))
    THEN Str(JsString(Get(offer, "priceCurrency"))) ELSE NULL

\* the price and currency assignments with the currency taken from every
\* candidate's offer, whether or not the price is already set
NextOfferCurrencyAlways(acc, n) ==
    LET offer == OfferOf(n)
        cur   == OfferCurrency(offer)
    IN [price    |-> IF acc.price = NULL /\ Truthy(offer)
                     THEN toNumberOrNull(OfferPrice(offer)) ELSE acc.price,
        currency |-> IF Truthy(offer) /\ ~Truthy(acc.currency) /\ Truthy(cur)
                     THEN cur ELSE acc.currency]

\* if (price == null && offer) { price = ...; if (!currency && cur) currency = cur; }
NextOffer(acc, n) ==
    LET offer == OfferOf(n)
        cur   == OfferCurrency(offer)
    IN IF acc.price = NULL /\ Truthy(offer)
       THEN [price    |-> toNumberOrNull(OfferPrice(offer)),
             currency |-> IF ~Truthy(acc.currency) /\ Truthy(cur)
                          THEN cur ELSE acc.currency]
       ELSE [price |-> acc.price, currency |-> acc.currency]

\* one iteration of the loop over the candidates, up to its break test
ScanStep(acc, n) ==
    [title    |-> NextTitle(acc, n),
     imageUrl |-> NextImage(acc, n),
     price    |-> NextOffer(acc, n).price,
     currency |-> NextOffer(acc, n).currency]

\* if (title && imageUrl && price != null) break
Complete(acc) == acc.title # <<>> /\ acc.imageUrl # <<>> /\ acc.price # NULL

\* a try block around the whole loop over the scripts: the first malformed
\* script ends the loop
catchAborts(kk, len) == len + 1

\* the catch block lies inside the loop over the scripts: after a script
\* that JSON.parse rejects, the loop goes on with the next script
catchResumes(kk, len) == kk + 1

RECURSIVE scanCandidates(_, _)
\* for (const n of candidates) { ... }
scanCandidates(acc, cands) ==
    IF cands = <<>> THEN acc
    ELSE LET a == ScanStep(acc, Head(cands))
         IN IF Complete(a) THEN a ELSE scanCandidates(a, Tail(cands))

RECURSIVE scanScripts(_, _, _)
\* for (const raw of scripts) { try { ... } catch {} }, from script kk on
scanScripts(acc, scripts, kk) ==
    IF kk > Len(scripts) THEN acc
    ELSE IF scripts[kk] = Malformed
         THEN scanScripts(acc, scripts, catchResumes(kk, Len(scripts)))
    ELSE scanScripts(scanCandidates(acc, Candidates(scripts[kk])), scripts, kk + 1)

\* the four pickFirst calls of the OG/meta fallback
Fallback(meta) ==
    [ogTitle      |-> pickFirst(<<meta.ogTitle, meta.twitterTitle, meta.titleText>>),
     ogImage      |-> pickFirst(<<meta.ogImage, meta.twitterImage>>),
     metaPrice    |-> pickFirst(<<meta.priceProperty, meta.priceName,
                                  meta.itempropPriceContent, meta.itempropPriceText>>),
     metaCurrency |-> pickFirst(<<meta.currencyProperty, meta.currencyName,
                                  meta.itempropCurrencyContent,
                                  meta.itempropCurrencyText>>)]

\* a || b
Or(a, b) == IF Truthy(a) THEN a ELSE b

\* the merge with the heuristic values taking precedence
MergeHeuristicFirst(base, acc, fb) ==
    [title    |-> pickFirst(<<Str(fb.ogTitle), Str(acc.title)>>),
     imageUrl |-> absUrl(base, pickFirst(<<Str(fb.ogImage), Str(acc.imageUrl)>>)),
     price    |-> IF toNumberOrNull(Str(fb.metaPrice)) # NULL
                  THEN toNumberOrNull(Str(fb.metaPrice)) ELSE acc.price,
     currency |-> Or(Or(IF fb.metaCurrency # <<>> THEN Str(Trim(fb.metaCurrency)) ELSE NULL,
                        extractCurrencyLoose(fb.metaPrice)),
                     acc.currency)]

\* finalTitle, finalImage, finalPrice, finalCurrency and the returned record
Merge(base, acc, fb) ==
    [title    |-> pickFirst(<<Str(acc.title), Str(fb.ogTitle)>>),
     imageUrl |-> absUrl(base, pickFirst(<<Str(acc.imageUrl), Str(fb.ogImage)>>)),
     price    |-> IF acc.price # NULL THEN acc.price
                  ELSE toNumberOrNull(Str(fb.metaPrice)),
     currency |-> Or(Or(acc.currency,
                        IF fb.metaCurrency # <<>> THEN Str(Trim(fb.metaCurrency)) ELSE NULL),
                     extractCurrencyLoose(Or(Str(fb.metaPrice), Str(<<>>)).s))]

\* parseFromHtml(url, html) as one function
parseFromHtml(base, page) ==
    Merge(base, scanScripts(NoFields, page.scripts, 1), Fallback(page.meta))

----------------------------------------------------------------------------
(* Idle values of the variables a specification does not use *)

IdleNum    == numIn = <<>> /\ numOut = UNDEFINED
IdleFlat   == flatIn = UNDEFINED /\ flatOut = UNDEFINED
IdleParse  == /\ url = <<>> /\ html = UNDEFINED /\ pc = "idle" /\ k = 0
              /\ candidates = <<>> /\ title = <<>> /\ imageUrl = <<>>
              /\ price = NULL /\ currency = NULL
              /\ ogTitle = <<>> /\ ogImage = <<>> /\ metaPrice = <<>>
              /\ metaCurrency = <<>> /\ result = UNDEFINED
IdleScrape == TOKEN = <<>> /\ reqs = <<>>

----------------------------------------------------------------------------
(* toNumberOrNull applied to every text of at most MaxLen characters *)

MaxLen == 5

NumChars == {"1", "0", ",", ".", " ", "x"}

Texts == UNION {[1..n -> NumChars] : n \in 0..MaxLen}

InitNum == /\ numIn \in Texts /\ numOut = UNDEFINED
           /\ IdleFlat /\ IdleParse /\ IdleScrape

CallToNumberOrNull ==
    /\ numOut = UNDEFINED
    /\ numOut' = toNumberOrNull(Str(numIn))
    /\ UNCHANGED <<numIn, flatVars, parseVars, scrapeVars>>

NextNum == CallToNumberOrNull

SpecNum == InitNum /\ [][NextNum]_vars

\* What the separator rule of the specification yields for a text: strip
\* all but digits, commas and periods; with both separators present the one
\* at the last separator position is the decimal separator and the other is
\* dropped; a comma alone is the decimal separator; every decimal separator
\* becomes a period and the remaining text is read as a number.
SeparatorRule(s) ==
    LET c     == SelectSeq(s, LAMBDA x : x \in Digits \cup {",", "."})
        seps  == {i \in 1..Len(c) : c[i] \in {",", "."}}
        both  == (\E i \in seps : c[i] = ",") /\ (\E i \in seps : c[i] = ".")
        dec   == IF both THEN c[CHOOSE i \in seps : \A j \in seps : j <= i]
                 ELSE IF \E i \in seps : c[i] = "," THEN "," ELSE "."
        kept  == IF both THEN SelectSeq(c, LAMBDA x : x \in Digits \cup {dec}) ELSE c
        text  == [i \in 1..Len(kept) |-> IF kept[i] = dec THEN "." ELSE kept[i]]
        n     == JsNumber(text)
    IN IF c = <<>> THEN NULL ELSE IF n.t = "num" THEN n ELSE NULL

\* C6: for every text, toNumberOrNull is the separator rule (the separator
\* occurring last is the decimal one when both occur, a lone comma is a
\* decimal comma, the result is the number read or absent); "1.234,56" and
\* "1,234.56" give 1234.56, "19,99" gives 19.99, "1,234" gives 1.234, and ""
\* and "abc" give absent.
C6_SeparatorRule ==
    /\ numOut # UNDEFINED => numOut = SeparatorRule(numIn)
    /\ numOut # UNDEFINED =>
         /\ toNumberOrNull(Str(<<"1", ".", "2", "3", "4", ",", "5", "6">>)) = Num(123456, 2)
         /\ toNumberOrNull(Str(<<"1", ",", "2", "3", "4", ".", "5", "6">>)) = Num(123456, 2)
         /\ toNumberOrNull(Str(<<"1", "9", ",", "9", "9">>)) = Num(1999, 2)
         /\ toNumberOrNull(Str(<<"1", ",", "2", "3", "4">>)) = Num(1234, 3)
         /\ toNumberOrNull(Str(<<>>)) = NULL
         /\ toNumberOrNull(Str(<<"abc">>)) = NULL

\* a text with both separators, the comma last, has been normalised
C6_Witness ==
    /\ numIn = <<"1", ".", "0", ",", "1">>
    /\ numOut = Num(101, 1)

----------------------------------------------------------------------------
(* flattenJsonLd applied to JSON documents of nesting depth up to three *)

MaxArr == 2

LeafValues ==
    {NULL, Str(<<"x">>), Obj("name" :> Str(<<"a">>)), Obj("name" :> Str(<<"b">>))}

ArraysOf(S) == {Arr(xs) : xs \in UNION {[1..n -> S] : n \in 0..MaxArr}}

\* a leaf object that also has the given container key
WithKey(key, v) == Obj(("name" :> Str(<<"c">>)) @@ (key :> v))

ContainerKeys == {"@graph", "graph", "mainEntity", "itemListElement", "offers"}

MidValues ==
    LeafValues \cup ArraysOf(LeafValues)
        \cup {WithKey(key, v) : key \in ContainerKeys, v \in LeafValues}

\* the documents: a value of depth up to two, an array of two of them, or
\* an object with one or two container keys, one child of depth up to two
Docs ==
    MidValues
        \cup {Arr(<<v, w>>) : v \in MidValues, w \in MidValues}
        \cup {Obj((k1 :> v) @@ (k2 :> w)) :
                 k1 \in ContainerKeys, k2 \in ContainerKeys,
                 v \in MidValues,
                 w \in LeafValues \cup {Arr(<<x, y>>) : x \in LeafValues, y \in LeafValues}}

InitFlat == /\ flatIn \in Docs /\ flatOut = UNDEFINED
            /\ IdleNum /\ IdleParse /\ IdleScrape

CallFlattenJsonLd ==
    /\ flatOut = UNDEFINED
    /\ flatOut' = Arr(flattenJsonLd(flatIn))
    /\ UNCHANGED <<flatIn, numVars, parseVars, scrapeVars>>

NextFlat == CallFlattenJsonLd

SpecFlat == InitFlat /\ [][NextFlat]_vars

\* the order in which the specification lists an object's children
PreOrderKeys == <<"@graph", "graph", "mainEntity", "itemListElement", "offers">>

RECURSIVE ObjectPaths(_)
\* The occurrences of objects in a document, each named by its path from the
\* root: step r <= Len(PreOrderKeys) enters the value under key
\* PreOrderKeys[r], step Len(PreOrderKeys) + i enters element i of an array.
ObjectPaths(v) ==
    CASE v.t = "arr" ->
           UNION {{<<Len(PreOrderKeys) + i>> \o p : p \in ObjectPaths(v.elems[i])} :
                    i \in 1..Len(v.elems)}
      [] v.t = "obj" ->
           {<<>>} \cup
           UNION {{<<r>> \o p : p \in ObjectPaths(v.fields[PreOrderKeys[r]])} :
                    r \in {q \in 1..Len(PreOrderKeys) : PreOrderKeys[q] \in DOMAIN v.fields}}
      [] OTHER -> {}

RECURSIVE ValueAt(_, _)
ValueAt(v, p) ==
    IF p = <<>> THEN v
    ELSE IF v.t = "arr" THEN ValueAt(v.elems[Head(p) - Len(PreOrderKeys)], Tail(p))
    ELSE ValueAt(v.fields[PreOrderKeys[Head(p)]], Tail(p))

\* p comes before q in pre-order: p is a proper prefix of q (an object before
\* what is reached through it), or at the first difference p takes the
\* earlier key or the earlier array element
Before(p, q) ==
    \/ Len(p) < Len(q) /\ SubSeq(q, 1, Len(p)) = p
    \/ \E i \in 1..Len(p) :
         /\ i <= Len(q)
         /\ SubSeq(p, 1, i - 1) = SubSeq(q, 1, i - 1)
         /\ p[i] < q[i]

RECURSIVE InPreOrder(_)
\* the paths of a set, first to last in pre-order
InPreOrder(P) ==
    IF P = {} THEN <<>>
    ELSE LET first == CHOOSE p \in P : \A q \in P \ {p} : Before(p, q)
         IN <<first>> \o InPreOrder(P \ {first})

\* C9: flattenJsonLd returns exactly the objects of the document reachable
\* through arrays and the keys @graph, graph, mainEntity, itemListElement,
\* offers, once per occurrence, in pre-order (an object before everything
\* reached through it, children in that key order); arrays, scalars and null
\* are never in the output.
C9_PreOrder ==
    flatOut # UNDEFINED =>
        LET paths == InPreOrder(ObjectPaths(flatIn))
        IN /\ flatOut.elems = [i \in 1..Len(paths) |-> ValueAt(flatIn, paths[i])]
           /\ \A i \in 1..Len(flatOut.elems) : flatOut.elems[i].t = "obj"

\* a document whose root object has children under two keys, the first of
\* them with a child of its own, has been flattened
C9_Witness ==
    /\ flatOut # UNDEFINED
    /\ flatIn.t = "obj"
    /\ {"mainEntity", "offers"} \subseteq DOMAIN flatIn.fields
    /\ Get(Get(flatIn, "mainEntity"), "@graph").t = "obj"
    /\ Get(flatIn, "offers").t = "arr"
    /\ Len(flatOut.elems) = 5

----------------------------------------------------------------------------
(* parseFromHtml, step by step, on pages of up to MaxItems script items *)

MaxItems == 3

\* the example of the specification's section 8
ProductFull ==
    Obj(("@type" :> Str(<<"Product">>)) @@ ("name" :> Str(<<"Widget">>))
        @@ ("image" :> Arr(<<Str(<<"/w.jpg">>), Str(<<"/w2.jpg">>)>>))
        @@ ("offers" :> Obj(("price" :> Str(<<"1", "9", ",", "9", "9">>))
                            @@ ("priceCurrency" :> Str(<<"EUR">>)))))

\* a Product with a blank name, an empty image, and a first offer whose price
\* is no number but whose lowPrice is
ProductPartial ==
    Obj(("@type" :> Arr(<<Str(<<"Thing">>), Str(<<"PRODUCT">>)>>))
        @@ ("name" :> Str(<<" ">>)) @@ ("image" :> Str(<<>>))
        @@ ("offers" :> Arr(<<Obj(("price" :> Str(<<"abc">>))
                                  @@ ("lowPrice" :> Str(<<"5">>))
                                  @@ ("priceCurrency" :> Str(<<"USD">>)))>>)))

\* a Product with everything but a currency
ProductNoCurrency ==
    Obj(("@type" :> Str(<<"product">>)) @@ ("name" :> Str(<<"Gadget">>))
        @@ ("image" :> Str(<<"/g.jpg">>))
        @@ ("offers" :> Obj("lowPrice" :> Num(7, 0))))

\* a Product with only an offer, its currency spelled out
ProductOfferOnly ==
    Obj(("@type" :> Str(<<"Product">>))
        @@ ("offers" :> Obj(("highPrice" :> Str(<<"3">>))
                            @@ ("priceCurrency" :> Str(<<"Euro">>)))))

\* a Product that is free of charge and says no more
ProductZeroPrice ==
    Obj(("@type" :> Str(<<"Product">>)) @@ ("offers" :> Obj("price" :> Num(0, 0))))

\* not a Product
WebSite ==
    Obj(("@type" :> Str(<<"WebSite">>)) @@ ("name" :> Str(<<"Shop">>))
        @@ ("image" :> Str(<<"/logo.png">>)))

\* a node without a type, its image list not starting with a string
Untyped ==
    Obj(("name" :> Str(<<"Thing">>)) @@ ("image" :> Arr(<<Num(5, 0)>>))
        @@ ("offers" :> Obj(("price" :> Str(<<"1", ".", "2", "3", "4", ",", "5", "6">>))
                            @@ ("priceCurrency" :> Str(<<"GBP">>)))))

JsonNodes ==
    {ProductFull, ProductPartial, ProductNoCurrency, ProductOfferOnly,
     ProductZeroPrice, WebSite, Untyped}

RECURSIVE ScriptsUpTo(_)
\* The script lists of at most n items, an item being a malformed script or a
\* node; a script with one node is that object, a script with several nodes
\* is the array of them.
ScriptsUpTo(n) ==
    IF n = 0 THEN {<<>>}
    ELSE LET S == ScriptsUpTo(n - 1)
         IN S \cup {Append(sc, Malformed) : sc \in S}
              \cup {Append(sc, node) : sc \in S, node \in JsonNodes}
              \cup {[sc EXCEPT ![Len(sc)] =
                        IF @.t = "arr" THEN Arr(Append(@.elems, node)) ELSE Arr(<<@, node>>)] :
                      sc \in {x \in S : x # <<>> /\ x[Len(x)] # Malformed},
                      node \in JsonNodes}

\* a page without any of the tags the fallback looks for
NoMeta ==
    [ogTitle |-> UNDEFINED, twitterTitle |-> UNDEFINED, titleText |-> Str(<<>>),
     ogImage |-> UNDEFINED, twitterImage |-> UNDEFINED,
     priceProperty |-> UNDEFINED, priceName |-> UNDEFINED,
     itempropPriceContent |-> UNDEFINED, itempropPriceText |-> Str(<<>>),
     currencyProperty |-> UNDEFINED, currencyName |-> UNDEFINED,
     itempropCurrencyContent |-> UNDEFINED, itempropCurrencyText |-> Str(<<>>)]

Metas ==
    {[NoMeta EXCEPT !.ogTitle = a, !.titleText = b, !.ogImage = c,
                    !.priceProperty = e, !.itempropPriceText = f,
                    !.currencyProperty = g, !.itempropCurrencyText = h] :
        a \in {UNDEFINED, Str(<<"Cool", " ", "Shoes">>)},
        b \in {Str(<<>>), Str(<<" ", "Doc", " ">>)},
        c \in {UNDEFINED, Str(<<"/img", "/shoe.png">>), Str(<<"http://[">>),
               Str(<<"https://cdn.example", "/t.png">>)},
        e \in {UNDEFINED, Str(<<"$", " ", "1", "9", ".", "9", "9">>),
               Str(<<"£", "5", " ", "eur">>), Str(<<"1", "2">>)},
        f \in {Str(<<>>), Str(<<" ", "£", " ", "5", ",", "5", "0", " ", "$">>)},
        g \in {UNDEFINED, Str(<<" ">>), Str(<<"Euro">>)},
        h \in {Str(<<>>), Str(<<" ", "usd", " ">>)}}

Pages ==
    {[scripts |-> sc, meta |-> NoMeta] : sc \in ScriptsUpTo(MaxItems)}
        \cup {[scripts |-> sc, meta |-> m] : sc \in ScriptsUpTo(1), m \in Metas}

Bases == {<<"https://shop.example", "/p", "/1">>}

InitParse ==
    /\ url \in Bases /\ html \in Pages
    /\ pc = "scripts" /\ k = 1 /\ candidates = <<>>
    /\ title = <<>> /\ imageUrl = <<>> /\ price = NULL /\ currency = NULL
    /\ ogTitle = <<>> /\ ogImage = <<>> /\ metaPrice = <<>> /\ metaCurrency = <<>>
    /\ result = UNDEFINED
    /\ IdleNum /\ IdleFlat /\ IdleScrape

Fields == [title |-> title, imageUrl |-> imageUrl, price |-> price, currency |-> currency]

\* JSON.parse(raw) throws; the empty catch block swallows it
SkipMalformed ==
    /\ pc = "scripts" /\ candidates = <<>>
    /\ k <= Len(html.scripts) /\ html.scripts[k] = Malformed
    /\ k' = catchResumes(k, Len(html.scripts))
    /\ UNCHANGED <<url, html, pc, candidates, title, imageUrl, price, currency,
                   ogTitle, ogImage, metaPrice, metaCurrency, result>>
    /\ UNCHANGED <<numVars, flatVars, scrapeVars>>

\* JSON.parse, flattenJsonLd and the Product filter on the next script
ParseScript ==
    /\ pc = "scripts" /\ candidates = <<>>
    /\ k <= Len(html.scripts) /\ html.scripts[k] # Malformed
    /\ candidates' = Candidates(html.scripts[k])
    /\ k' = k + 1
    /\ UNCHANGED <<url, html, pc, title, imageUrl, price, currency,
                   ogTitle, ogImage, metaPrice, metaCurrency, result>>
    /\ UNCHANGED <<numVars, flatVars, scrapeVars>>

\* one iteration of the loop over the candidates of the current script
ScanCandidate ==
    /\ pc = "scripts" /\ candidates # <<>>
    /\ LET a == ScanStep(Fields, Head(candidates))
       IN /\ title' = a.title /\ imageUrl' = a.imageUrl
          /\ price' = a.price /\ currency' = a.currency
          /\ candidates' = IF Complete(a) THEN <<>> ELSE Tail(candidates)
    /\ UNCHANGED <<url, html, pc, k, ogTitle, ogImage, metaPrice, metaCurrency, result>>
    /\ UNCHANGED <<numVars, flatVars, scrapeVars>>

\* the OG/meta fallback, the merge and the return
MergeAndReturn ==
    /\ pc = "scripts" /\ candidates = <<>> /\ k > Len(html.scripts)
    /\ LET fb == Fallback(html.meta)
       IN /\ ogTitle' = fb.ogTitle /\ ogImage' = fb.ogImage
          /\ metaPrice' = fb.metaPrice /\ metaCurrency' = fb.metaCurrency
          /\ result' = Merge(url, Fields, fb)
    /\ pc' = "done"
    /\ UNCHANGED <<url, html, k, candidates, title, imageUrl, price, currency>>
    /\ UNCHANGED <<numVars, flatVars, scrapeVars>>

Next == SkipMalformed \/ ParseScript \/ ScanCandidate \/ MergeAndReturn

Spec == InitParse /\ [][Next]_vars

----------------------------------------------------------------------------
(* Claims about parseFromHtml *)

RECURSIVE WorkingSets(_)
\* the candidates of the well-formed scripts, one working set after the
\* other, in document order
WorkingSets(scripts) ==
    IF scripts = <<>> THEN <<>>
    ELSE (IF Head(scripts) = Malformed THEN <<>> ELSE Candidates(Head(scripts)))
         \o WorkingSets(Tail(scripts))

RECURSIVE PageNodes(_)
\* the candidate list of the whole page: the flattening of all its
\* well-formed scripts in document order
PageNodes(scripts) ==
    IF scripts = <<>> THEN <<>>
    ELSE (IF Head(scripts) = Malformed THEN <<>> ELSE flattenJsonLd(Head(scripts)))
         \o PageNodes(Tail(scripts))

\* the position of the first element of a sequence with a property, 0 if none
First(seq, Has(_)) ==
    IF \E i \in 1..Len(seq) : Has(seq[i])
    THEN CHOOSE i \in 1..Len(seq) : Has(seq[i]) /\ \A j \in 1..(i-1) : ~Has(seq[j])
    ELSE 0

NameOf(n) == Trim(JsString(Get(n, "name")))

ImageOf(n) ==
    LET img == Get(n, "image")
    IN IF img.t = "str" THEN img.s
       ELSE IF img.t = "arr" /\ Len(img.elems) > 0 /\ img.elems[1].t = "str"
            THEN img.elems[1].s
       ELSE <<>>

HasImageText(n) ==
    LET img == Get(n, "image")
    IN \/ img.t = "str"
       \/ img.t = "arr" /\ Len(img.elems) > 0 /\ img.elems[1].t = "str"

PriceFields == {"price", "lowPrice", "highPrice"}

\* C1 as stated: when some candidate of the page is a Product, every output
\* field comes from a Product candidate (or from the fallback, or is empty),
\* never from a candidate that is no Product, whichever script it sits in.
C1_ProductsOnlyPageWide ==
    LET products == SelectSeq(PageNodes(html.scripts),
                              LAMBDA n : isType(n, <<"Product">>))
        P == {products[i] : i \in 1..Len(products)}
    IN (pc = "done" /\ P # {}) =>
         /\ result.title \in {ogTitle} \cup {NameOf(n) : n \in P}
         /\ result.imageUrl \in {absUrl(url, ogImage)}
                                \cup {absUrl(url, ImageOf(n)) : n \in P}
         /\ result.price \in {toNumberOrNull(Str(metaPrice))}
                \cup {toNumberOrNull(OfferPrice(OfferOf(n))) : n \in P}
         /\ result.currency \in
                {NULL, Str(metaCurrency), extractCurrencyLoose(metaPrice)}
                \cup {OfferCurrency(OfferOf(n)) : n \in P}

\* C2 as stated: each of title, imageUrl and price ends as the value of the
\* first candidate of the working sets that has a non-empty trimmed name,
\* an image that is a string or a list starting with a string, an offer one
\* of whose price, lowPrice, highPrice normalizes to a number.
C2_FirstMatchAsStated ==
    pc = "done" =>
      LET W == WorkingSets(html.scripts)
          t == First(W, LAMBDA n : Get(n, "name").t = "str" /\ NameOf(n) # <<>>)
          i == First(W, HasImageText)
          p == First(W, LAMBDA n : \E f \in PriceFields :
                           toNumberOrNull(Get(OfferOf(n), f)) # NULL)
      IN /\ title = IF t = 0 THEN <<>> ELSE NameOf(W[t])
         /\ imageUrl = IF i = 0 THEN <<>> ELSE ImageOf(W[i])
         /\ IF p = 0 THEN price = NULL
            ELSE price \in {toNumberOrNull(Get(OfferOf(W[p]), f)) : f \in PriceFields}
                           \ {NULL}

UsableName(n) == Truthy(Get(n, "name")) /\ NameOf(n) # <<>>
UsableImage(n) == ImageOf(n) # <<>>
UsablePrice(n) == Truthy(OfferOf(n)) /\ toNumberOrNull(OfferPrice(OfferOf(n))) # NULL

\* C2, amended: a field that a candidate has set is never changed again, and
\* each of title, imageUrl and price ends as the value of the first candidate
\* of the working sets with a usable value: a name that is truthy and not
\* blank; an image that is a non-empty string or a list starting with a
\* non-empty string; an offer (the first of a list) for which the first
\* non-null of price, lowPrice, highPrice normalizes to a number.
C2_FirstMatchWins ==
    /\ [](pc = "done" =>
            LET W == WorkingSets(html.scripts)
                t == First(W, UsableName)
                i == First(W, UsableImage)
                p == First(W, UsablePrice)
            IN /\ title = IF t = 0 THEN <<>> ELSE NameOf(W[t])
               /\ imageUrl = IF i = 0 THEN <<>> ELSE ImageOf(W[i])
               /\ price = IF p = 0 THEN NULL
                          ELSE toNumberOrNull(OfferPrice(OfferOf(W[p]))))
    /\ [][/\ title # <<>> => title' = title
          /\ imageUrl # <<>> => imageUrl' = imageUrl
          /\ price # NULL => price' = price]_vars

\* a later candidate (of a later script) offers another name, image and
\* price than the ones already set, and the scan is over
C2_Witness ==
    /\ pc = "done"
    /\ html.scripts = <<Arr(<<ProductPartial, ProductNoCurrency>>), ProductFull>>
    /\ title = <<"Gadget">> /\ imageUrl = <<"/g.jpg">> /\ price = Num(7, 0)

HasOfferCurrency(n) == Truthy(OfferOf(n)) /\ Truthy(OfferCurrency(OfferOf(n)))

\* C3 as stated: the structured currency is the priceCurrency of the first
\* candidate of the working sets whose offer has one, also when that
\* candidate comes after the ones that set price, title and image.
C3_CurrencyFullPass ==
    pc = "done" =>
      LET W == WorkingSets(html.scripts)
          c == First(W, HasOfferCurrency)
      IN currency = IF c = 0 THEN NULL ELSE OfferCurrency(OfferOf(W[c]))

\* C3, amended: the currency is read only from offers looked at while the
\* price is still unset.  The structured currency is the priceCurrency of the
\* first candidate whose offer has one among the candidates up to and
\* including the first one that yields a price; once the price is set no
\* later candidate changes the currency.
C3_CurrencyWithPrice ==
    /\ [](pc = "done" =>
            LET W == WorkingSets(html.scripts)
                p == First(W, UsablePrice)
                U == IF p = 0 THEN W ELSE SubSeq(W, 1, p)
                c == First(U, HasOfferCurrency)
            IN currency = IF c = 0 THEN NULL ELSE OfferCurrency(OfferOf(U[c])))
    /\ [][price # NULL => currency' = currency]_vars

\* the price came from an offer without a currency, a later candidate's
\* offer has one, and the structured currency stayed absent
C3_Witness ==
    /\ pc = "done"
    /\ html.scripts = <<ProductZeroPrice, ProductOfferOnly>>
    /\ price = Num(0, 0) /\ currency = NULL

\* the currency detector as the specification words it
DetectCurrency(s) ==
    LET has(word, sign) == Includes(ToUpperCase(s), word) \/ Includes(s, sign)
    IN CASE has("EUR", "€") -> Str(<<"EUR">>)
         [] ~has("EUR", "€") /\ has("USD", "$") -> Str(<<"USD">>)
         [] ~has("EUR", "€") /\ ~has("USD", "$") /\ has("GBP", "£") -> Str(<<"GBP">>)
         [] OTHER -> NULL

\* C4: the returned title is the structured title unless that is empty, then
\* the heuristic title; the price is the structured price if there is one
\* (0 included), else toNumberOrNull of the heuristic price string; the
\* currency is the structured one if there is one, else the non-empty
\* heuristic currency string, else the detector on the heuristic price
\* string (EUR before USD before GBP, else absent).
C4_MergePrecedence ==
    pc = "done" =>
      /\ result.title = IF title # <<>> THEN title ELSE ogTitle
      /\ result.price = IF price # NULL THEN price ELSE toNumberOrNull(Str(metaPrice))
      /\ result.currency =
            IF currency # NULL THEN currency
            ELSE IF Trim(metaCurrency) # <<>> THEN Str(Trim(metaCurrency))
            ELSE DetectCurrency(metaPrice)

\* no structured currency and no heuristic currency string: the detector
\* decides, on a price string with a pound sign before "eur"; the structured
\* price 0 beat the heuristic price
C4_Witness ==
    /\ pc = "done"
    /\ price = Num(0, 0) /\ currency = NULL /\ title = <<>>
    /\ metaCurrency = <<>> /\ metaPrice = <<"£", "5", " ", "eur">>
    /\ ogTitle = <<"Cool", " ", "Shoes">>
    /\ result.price = Num(0, 0) /\ result.currency = Str(<<"EUR">>)
    /\ result.title = <<"Cool", " ", "Shoes">>

\* C5: whatever malformed scripts a page has and wherever they are,
\* parseFromHtml returns, and returns what it returns for the page without
\* them.
C5_MalformedSkipped ==
    pc = "done" =>
        result = parseFromHtml(url,
                   [html EXCEPT !.scripts = SelectSeq(@, LAMBDA r : r # Malformed)])

\* a malformed script between two well-formed ones: fields of the first are
\* kept, the second is still processed
C5_Witness ==
    /\ pc = "done"
    /\ html.scripts = <<WebSite, Malformed, ProductZeroPrice>>
    /\ result.title = <<"Shop">> /\ result.price = Num(0, 0)

\* lexemes of three letters
ThreeLetterWords == {"EUR", "USD", "GBP", "eur", "usd", "gbp", "Eur", "abc"}

\* C7 as stated: the returned currency is absent or a three-letter code.
C7_CurrencyShape ==
    pc = "done" =>
      \/ result.currency = NULL
      \/ Len(result.currency.s) = 1 /\ result.currency.s[1] \in ThreeLetterWords

----------------------------------------------------------------------------
(* POST /scrape: MaxRequests requests, their handlers interleaved at every  *)
(* await                                                                    *)

MaxRequests == 2

\* authOk(req)
authOk(token, req) ==
    IF token = <<>> THEN TRUE
    ELSE Coalesce(req.authorization, Str(<<>>)).s = <<"Bearer", " ">> \o token

\* !url || typeof url !== "string" || !/^https?:\/\//i.test(url)
invalidUrl(u) ==
    \/ ~Truthy(u)
    \/ u.t # "str"
    \/ Head(u.s) \notin Origins \cup BadUrlLexemes

\* the finally block closes the browser only after a successful extraction
closesOnSuccessOnly(r) == r.browser = "open" /\ r.status = 200

\* if (browser) in the finally block
closesBrowser(r) == r.browser = "open"

RequestUrls ==
    {Str(<<"ftp://shop.example", "/p">>), Str(<<"https://shop.example", "/p", "/1">>)}

Authorizations == {UNDEFINED, Str(<<"Bearer", " ", "secret">>)}

\* where the browser ends up for a requested URL: there, or redirected
FinalUrls(u) == {u, <<"https://m.shop.example">> \o Tail(u)}

\* what page.content() may return
RenderedPages ==
    {[scripts |-> <<ProductFull>>, meta |-> NoMeta]}

\* parseFromHtml(url, html) for every requested URL and rendered page,
\* tabulated
Parsed == [u \in {r.s : r \in RequestUrls}, h \in RenderedPages |-> parseFromHtml(u, h)]

NewRequest(auth, u) ==
    [pc |-> "received", authorization |-> auth, url |-> u, browser |-> "none",
     finalUrl |-> <<>>, html |-> UNDEFINED, status |-> 0, body |-> UNDEFINED]

InitScrape ==
    /\ TOKEN \in {<<>>, <<"secret">>}
    /\ reqs \in [1..MaxRequests ->
                   {NewRequest(a, u) : a \in Authorizations, u \in RequestUrls}]
    /\ IdleNum /\ IdleFlat /\ IdleParse

Others == <<numVars, flatVars, parseVars, TOKEN>>

\* the checks before the try block
Receive(i) ==
    /\ reqs[i].pc = "received"
    /\ reqs' = [reqs EXCEPT ![i] =
          IF ~authOk(TOKEN, @) THEN [@ EXCEPT !.pc = "done", !.status = 401]
          ELSE IF invalidUrl(@.url) THEN [@ EXCEPT !.pc = "done", !.status = 400]
          ELSE [@ EXCEPT !.pc = "launch"]]
    /\ UNCHANGED Others

\* browser = await chromium.launch(...)
Launch(i) ==
    /\ reqs[i].pc = "launch"
    /\ \/ reqs' = [reqs EXCEPT ![i].browser = "open", ![i].pc = "newPage"]
       \/ reqs' = [reqs EXCEPT ![i].pc = "catch"]
    /\ UNCHANGED Others

\* const context = await browser.newContext(...);
\* const page = await context.newPage()
NewPage(i) ==
    /\ reqs[i].pc = "newPage"
    /\ \/ reqs' = [reqs EXCEPT ![i].pc = "goto"]
       \/ reqs' = [reqs EXCEPT ![i].pc = "catch"]
    /\ UNCHANGED Others

\* await page.goto(url, ...): fails for a URL that is none, and may fail
\* for any other
Goto(i) ==
    /\ reqs[i].pc = "goto"
    /\ \/ /\ ~UrlThrows(<<>>, reqs[i].url.s)
          /\ reqs' = [reqs EXCEPT ![i].pc = "wait"]
       \/ reqs' = [reqs EXCEPT ![i].pc = "catch"]
    /\ UNCHANGED Others

\* await page.waitForLoadState(...).catch(() => {}); await page.waitForTimeout(750)
Wait(i) ==
    /\ reqs[i].pc = "wait"
    /\ \/ reqs' = [reqs EXCEPT ![i].pc = "content"]
       \/ reqs' = [reqs EXCEPT ![i].pc = "catch"]
    /\ UNCHANGED Others

\* const html = await page.content(); const parsed = parseFromHtml(url, html);
\* return res.json({ ok: true, url, html, ...parsed, ms }).  The content is
\* that of the page the browser ended up on, whose URL the handler never
\* reads: finalUrl records it.
Respond(i) ==
    /\ reqs[i].pc = "content"
    /\ \/ \E f \in FinalUrls(reqs[i].url.s), h \in RenderedPages :
            reqs' = [reqs EXCEPT ![i].finalUrl = f, ![i].html = h, ![i].status = 200,
                                 ![i].body = Parsed[reqs[i].url.s, h],
                                 ![i].pc = "finally"]
       \/ reqs' = [reqs EXCEPT ![i].pc = "catch"]
    /\ UNCHANGED Others

\* catch (e) { return res.status(502).json(...) }
Catch(i) ==
    /\ reqs[i].pc = "catch"
    /\ reqs' = [reqs EXCEPT ![i].status = 502, ![i].pc = "finally"]
    /\ UNCHANGED Others

\* finally { if (browser) await browser.close().catch(() => {}) }
Finally(i) ==
    /\ reqs[i].pc = "finally"
    /\ IF closesBrowser(reqs[i])
       THEN \/ reqs' = [reqs EXCEPT ![i].browser = "closed", ![i].pc = "done"]
            \/ reqs' = [reqs EXCEPT ![i].browser = "closeRejected", ![i].pc = "done"]
       ELSE reqs' = [reqs EXCEPT ![i].pc = "done"]
    /\ UNCHANGED Others

Handler(i) ==
    \/ Receive(i) \/ Launch(i) \/ NewPage(i) \/ Goto(i)
    \/ Wait(i) \/ Respond(i) \/ Catch(i) \/ Finally(i)

NextScrape == \E i \in 1..MaxRequests : Handler(i)

\* every promise the handler awaits settles (the navigation and the load
\* wait have timeouts), and the event loop then runs the continuation
SpecScrape ==
    InitScrape /\ [][NextScrape]_vars /\ \A i \in 1..MaxRequests : WF_vars(Handler(i))

\* C8 as stated: the image URL of a 200 response is resolved against the
\* page's final URL: the handler gives parseFromHtml that URL as the base.
C8_FinalUrlIsBase ==
    \A i \in 1..MaxRequests :
        reqs[i].status = 200 =>
            reqs[i].body = parseFromHtml(reqs[i].finalUrl, reqs[i].html)

\* C10: a request answered 401 or 400 never has a browser; a handler that has
\* finished leaves no browser on which close() was not called and awaited,
\* whether it answered 200 or 502 and whether or not close() itself failed;
\* and every browser launched is eventually in that state, its handler
\* finished.
C10_BrowserClosed ==
    /\ [](\A i \in 1..MaxRequests :
            /\ reqs[i].status \in {400, 401} => reqs[i].browser = "none"
            /\ reqs[i].pc = "done" =>
                 /\ reqs[i].browser \in {"none", "closed", "closeRejected"}
                 /\ reqs[i].status \in {200, 400, 401, 502})
    /\ \A i \in 1..MaxRequests :
         (reqs[i].browser = "open") ~>
             (reqs[i].pc = "done" /\ reqs[i].browser \in {"closed", "closeRejected"})

\* one handler finished with 502 after its browser was launched, another
\* with 200, and close() was called on both browsers, failing on one
C10_Witness ==
    \E i, j \in 1..MaxRequests :
        /\ reqs[i].pc = "done" /\ reqs[i].status = 502 /\ reqs[i].browser = "closed"
        /\ reqs[j].pc = "done" /\ reqs[j].status = 200
        /\ reqs[j].browser = "closeRejected"

====
